---- MODULE Spec2Model ----
(***************************************************************************)
(* Model of the legal-document agent:                                      *)
(*   - src/file_server.py : the capability server (list / read / save)     *)
(*     working on the directory ./dados_processos;                         *)
(*   - src/legal_agent.py : the LangGraph agent/tools loop with the        *)
(*     in-process MemorySaver checkpointer and the interactive prompt.     *)
(*                                                                         *)
(* Texts are sequences of characters.  A fixed message of the code such as *)
(* "Arquivo nao encontrado." is a one-element sequence holding that string.*)
(* Paths are sequences of segments below the filesystem root "/".          *)
(***************************************************************************)
EXTENDS Integers, Sequences, FiniteSets, TLC

(***************************************************************************)
(* Bounds of the model.                                                    *)
(***************************************************************************)
MaxLen == 1            \* longest text content given to save_document
MaxOps == 3            \* capability requests per behaviour of SpecFS
MaxCalls == 2          \* tool calls carried by one assistant message
MaxTurns == 2          \* user turns per behaviour of Spec
MaxFreeCalls == 2       \* freely chosen tool calls per behaviour of Spec
MaxRepeats == 3         \* responses of a provider that only repeats one call

(***************************************************************************)
(* Characters and texts.  CR and LF are the carriage return and the line   *)
(* feed; "x" stands for any other character.                               *)
(***************************************************************************)
Chars == {"x", "CR", "LF"}

Texts(n) == UNION {[1..k -> Chars] : k \in 0..n}

Front(s) == SubSeq(s, 1, Len(s) - 1)

Last(s) == s[Len(s)]

(***************************************************************************)
(* The directory layout.  The server runs with working directory /w and    *)
(* TARGET_DIRECTORY = Path("./dados_processos"), created at import.        *)
(***************************************************************************)
Cwd == <<"w">>

TARGET_DIRECTORY == <<"dados_processos">>

SandboxRoot == Cwd \o TARGET_DIRECTORY

Dirs == {<<>>, Cwd, SandboxRoot}

SecretPath == Cwd \o <<"secret.txt">>

SecretText == <<"x", "x">>

LinkPath == SandboxRoot \o <<"link">>

(* A filename argument: its segments; a leading "/" marks an absolute one. *)
Filenames ==
    { <<"a.md">>,
      <<"r.pdf">>,
      <<"missing.txt">>,
      <<"link">>,
      <<"..", "secret.txt">>,
      <<"..", "out.md">>,
      <<"/", "w", "secret.txt">>,
      <<"sub", "x.md">> }

IsAbsolute(f) == Len(f) > 0 /\ f[1] = "/"

(* pathlib: base / filename; an absolute right operand replaces the base.  *)
JoinPath(base, f) == IF IsAbsolute(f) THEN Tail(f) ELSE base \o f

(* Path.resolve() (non-strict realpath): "." is dropped, ".." pops the     *)
(* resolved prefix lexically, a symlink is replaced by its target, a       *)
(* missing component is kept.                                              *)
RECURSIVE Realpath(_, _, _)
Realpath(links, done, rest) ==
    IF rest = <<>> THEN done
    ELSE LET s == Head(rest)
             q == Append(done, s)
         IN  IF s = "." THEN Realpath(links, done, Tail(rest))
             ELSE IF s = ".."
                  THEN Realpath(links, IF done = <<>> THEN <<>> ELSE Front(done), Tail(rest))
             ELSE IF q \in DOMAIN links
                  THEN Realpath(links, <<>>, links[q] \o Tail(rest))
             ELSE Realpath(links, q, Tail(rest))

(* Path lookup of the operating system for open(): as Realpath, but every  *)
(* intermediate component must be an existing directory.                   *)
RECURSIVE OsLookup(_, _, _)
OsLookup(links, done, rest) ==
    IF rest = <<>> THEN [ok |-> TRUE, path |-> done]
    ELSE LET s == Head(rest)
             q == Append(done, s)
         IN  IF s = "." THEN OsLookup(links, done, Tail(rest))
             ELSE IF s = ".."
                  THEN OsLookup(links, IF done = <<>> THEN <<>> ELSE Front(done), Tail(rest))
             ELSE IF q \in DOMAIN links
                  THEN OsLookup(links, <<>>, links[q] \o Tail(rest))
             ELSE IF Tail(rest) = <<>> THEN [ok |-> TRUE, path |-> q]
             ELSE IF q \in Dirs THEN OsLookup(links, q, Tail(rest))
             ELSE [ok |-> FALSE, path |-> q]

(* Path.suffix.lower() of the names the model uses.                        *)
Suffix(p) ==
    IF p = <<>> THEN ""
    ELSE IF Last(p) \in {"r.pdf"} THEN ".pdf"
    ELSE IF Last(p) \in {"a.md", "out.md", "x.md"} THEN ".md"
    ELSE IF Last(p) \in {"secret.txt", "missing.txt"} THEN ".txt"
    ELSE ""

(***************************************************************************)
(* Text encoding of open(..., "w", encoding="utf-8") and decoding of       *)
(* open(..., "r", encoding="utf-8", errors="ignore"): both with the        *)
(* default newline=None.  Writing turns each LF into os.linesep; reading   *)
(* turns CR LF and a lone CR into LF (universal newlines).                 *)
(***************************************************************************)
LineSep == <<"LF">>

RECURSIVE EncodeText(_)
EncodeText(t) ==
    IF t = <<>> THEN <<>>
    ELSE (IF Head(t) = "LF" THEN LineSep ELSE <<Head(t)>>) \o EncodeText(Tail(t))

RECURSIVE DecodeText(_)
DecodeText(b) ==
    IF b = <<>> THEN <<>>
    ELSE IF Head(b) = "CR"
         THEN IF Len(b) >= 2 /\ b[2] = "LF"
              THEN <<"LF">> \o DecodeText(Tail(Tail(b)))
              ELSE <<"LF">> \o DecodeText(Tail(b))
         ELSE <<Head(b)>> \o DecodeText(Tail(b))

NotFoundText == <<"Arquivo nao encontrado.">>

SavedText == <<"Salvo com sucesso.">>

WriteErrorText == <<"Erro: ", "OSError">>

(* extract_text_raw: the files of the model hold text, so PdfReader raises *)
(* on a .pdf and the handler returns ""; opening a directory raises too.   *)
extract_text_raw(f, path) ==
    IF path \notin DOMAIN f THEN <<>>
    ELSE IF Suffix(path) = ".pdf" THEN <<>>
    ELSE DecodeText(f[path])

ReadPath(links, filename) == Realpath(links, <<>>, JoinPath(SandboxRoot, filename))

(* Mutant of read_file_content: the test of path.exists() is left out.     *)
ReadWithoutExistsCheck(f, links, filename) ==
    extract_text_raw(f, ReadPath(links, filename))

(* read_file_content: the text returned for a filename.                    *)
read_file_content(f, links, filename) ==
    LET path == ReadPath(links, filename)
    IN  IF path \notin DOMAIN f /\ path \notin Dirs THEN NotFoundText
        ELSE extract_text_raw(f, path)

(* The file open(TARGET_DIRECTORY / filename, "w") creates or truncates.   *)
WriteLookup(links, filename) == OsLookup(links, <<>>, JoinPath(SandboxRoot, filename))

CanWrite(links, filename) ==
    LET r == WriteLookup(links, filename)
    IN  r.ok /\ r.path \notin Dirs /\ r.path # <<>> /\ Front(r.path) \in Dirs

(* save_document: the filesystem after the call, and the text returned.    *)
SaveFs(f, links, filename, content) ==
    IF CanWrite(links, filename)
    THEN LET p == WriteLookup(links, filename).path
         IN  [q \in DOMAIN f \cup {p} |-> IF q = p THEN EncodeText(content) ELSE f[q]]
    ELSE f

save_document(f, links, filename, content) ==
    [fs |-> SaveFs(f, links, filename, content),
     text |-> IF CanWrite(links, filename) THEN SavedText ELSE WriteErrorText]

(* The names the listing holds: regular files of the sandbox root,         *)
(* symlinks to a regular file included (is_file follows them).             *)
ListedNames(f, links) ==
    { p[Len(p)] : p \in { q \in DOMAIN f : Len(q) > 0 /\ Front(q) = SandboxRoot } }
    \cup { p[Len(p)] : p \in { q \in DOMAIN links :
                                  Front(q) = SandboxRoot /\ Realpath(links, <<>>, q) \in DOMAIN f } }

Orderings(S) ==
    { s \in [1..Cardinality(S) -> S] : \A i, j \in 1..Cardinality(S) : i # j => s[i] # s[j] }

(* list_available_files: iterdir() yields the entries in the directory's   *)
(* own order, which the code does not sort.                                *)
list_available_files(f, links) == Orderings(ListedNames(f, links))


(* What the MCP server puts in CallToolResult.content: one text item per   *)
(* element of a returned list (none for an empty list), one text item for  *)
(* a returned string (also for the empty string).                          *)
ListContent(order) == [i \in 1..Len(order) |-> <<order[i]>>]

TextContent(text) == <<text>>

(***************************************************************************)
(* State.                                                                  *)
(***************************************************************************)
VARIABLES
    fs,          \* regular files: path -> bytes on disk
    symlinks,    \* symbolic links: path -> target path
    fs0,         \* the files when the server started
    saved,       \* path -> [filename, content] of the last save_document that wrote it
    last,        \* the last capability request and its response
    nops,        \* capability requests served so far (SpecFS)
    listed,      \* the answer to the last list request since the last write
    index,       \* vector_db: the documents (chunks) added to the collection
    pc,          \* where the agent process is
    memory,      \* MemorySaver: the checkpointed messages of thread "juiz_principal"
    messages,    \* State["messages"] of the running graph
    outputs,     \* tools_node: the ToolMessages built so far
    idx,         \* tools_node: position in last_message.tool_calls
    nextId,      \* source of fresh message ids and tool-call ids
    turns,       \* turns started so far
    round,       \* provider calls of the current turn
    dispatched,  \* tool calls dispatched in the current turn
    requests,    \* capability requests issued in the current turn
    failure,     \* why the current turn ended without a final answer, or "none"
    archive,     \* the thread as of the end of the last completed turn
    free,        \* freely chosen tool calls so far
    reps,        \* responses so far that were the repeated call
    budget,      \* what the provider of this behaviour may answer in all
    prior,       \* messages of the thread the current app.ainvoke loaded
    inflight,    \* the external calls issued and not yet returned
    reply        \* the server's answer tools_node has not yet resumed with

fsVars == <<fs, symlinks, fs0, saved, last, nops, listed, index>>

agentVars == <<pc, memory, messages, outputs, idx, nextId, turns, round,
               dispatched, requests, failure, archive, free, reps, budget, prior,
               inflight, reply>>

vars == <<fs, symlinks, fs0, saved, last, nops, listed, index, pc, memory, messages, outputs, idx,
          nextId, turns, round, dispatched, requests, failure, archive, free,
          reps, budget,
          prior, inflight, reply>>

NoFiles == [p \in {} |-> <<>>]

NoRequest == [op |-> "none", filename |-> <<>>, content |-> <<>>, result |-> <<>>]

NoListing == [known |-> FALSE, result |-> <<>>]

NoReply == [ready |-> FALSE, raised |-> FALSE, text |-> <<>>]

(* The providers the behaviours are drawn from: one that answers freely    *)
(* with up to MaxFreeCalls tool calls in all, and one that answers with    *)
(* the single call RepeatedCall, up to MaxRepeats times in all.  Either    *)
(* may give a final answer at any time.                                    *)
Budgets ==
    { [calls |-> MaxFreeCalls, repeats |-> 0],
      [calls |-> 0, repeats |-> MaxRepeats],
      [calls |-> 1, repeats |-> MaxRepeats] }

NoBudget == [calls |-> 0, repeats |-> 0]

(* The files and links present when the process starts: the secret file    *)
(* outside the sandbox; the sandbox empty or holding a.md; with or without *)
(* a link from the sandbox to the secret file.                             *)
InitialFiles ==
    { [p \in {SecretPath} |-> SecretText],
      [p \in {SecretPath, SandboxRoot \o <<"a.md">>} |->
            IF p = SecretPath THEN SecretText ELSE <<"x">>] }

InitialLinks == { NoFiles, [p \in {LinkPath} |-> SecretPath] }

InitWorld ==
    /\ fs \in InitialFiles
    /\ symlinks \in InitialLinks
    /\ fs0 = fs
    /\ saved = NoFiles
    /\ last = NoRequest
    /\ nops = 0
    /\ listed = NoListing
    /\ index = <<>>

InitAgent(start) ==
    /\ pc = start
    /\ memory = <<>>
    /\ messages = <<>>
    /\ outputs = <<>>
    /\ idx = 0
    /\ nextId = 1
    /\ turns = 0
    /\ round = 0
    /\ dispatched = 0
    /\ requests = 0
    /\ failure = "none"
    /\ archive = <<>>
    /\ free = 0
    /\ reps = 0
    /\ prior = 0
    /\ inflight = {}
    /\ reply = NoReply

(***************************************************************************)
(* The capability server on its own: requests arrive one after another.    *)
(***************************************************************************)
(***************************************************************************)
(* index_document.  The texts of the model are shorter than chunk_size,    *)
(* so RecursiveCharacterTextSplitter merges the pieces of a text back into *)
(* one chunk, strips it and drops it when nothing is left.                 *)
(***************************************************************************)
Whitespace == {"CR", "LF"}

Strip(text) ==
    LET keep == {i \in 1..Len(text) : text[i] \notin Whitespace}
    IN  IF keep = {} THEN <<>>
        ELSE SubSeq(text, CHOOSE i \in keep : \A j \in keep : i <= j,
                          CHOOSE i \in keep : \A j \in keep : i >= j)

split_text(text) == IF Strip(text) = <<>> THEN <<>> ELSE <<Strip(text)>>

(* Mutant of create_documents: the chunks carry no source.                 *)
CreateDocumentsUntagged(text, filename) ==
    [i \in 1..Len(split_text(text)) |->
        [page_content |-> split_text(text)[i], metadata |-> [source |-> <<>>]]]

(* text_splitter.create_documents([raw_text], metadatas=[{"source":        *)
(* filename}]).                                                            *)
create_documents(text, filename) ==
    [i \in 1..Len(split_text(text)) |->
        [page_content |-> split_text(text)[i], metadata |-> [source |-> filename]]]

EmptyDocumentText == <<"Nao foi possivel extrair texto ou arquivo vazio.">>

IndexedText(filename, n) ==
    <<"Sucesso: Arquivo '">> \o filename
        \o <<"' indexado. Gerados ", ToString(n), " fragmentos pesquisaveis.">>

(* The text of the result when the tool raised.                            *)
IndexErrorText == <<"Error executing tool index_document">>

(* index_document: the collection and the text returned.  Adding an empty  *)
(* list of documents to the collection either does nothing or raises,      *)
(* depending on the version of the vector store.                           *)
index_document(f, links, docs, filename) ==
    LET path == ReadPath(links, filename)
        raw_text == extract_text_raw(f, path)
        chunks == create_documents(raw_text, filename)
    IN  IF path \notin DOMAIN f /\ path \notin Dirs
        THEN {[index |-> docs, text |-> NotFoundText]}
        ELSE IF raw_text = <<>>
        THEN {[index |-> docs, text |-> EmptyDocumentText]}
        ELSE IF chunks = <<>>
        THEN {[index |-> docs, text |-> IndexedText(filename, 0)],
              [index |-> docs, text |-> IndexErrorText]}
        ELSE {[index |-> docs \o chunks, text |-> IndexedText(filename, Len(chunks))]}

SavedAfter(f, links, filename, content) ==
    IF CanWrite(links, filename)
    THEN LET p == WriteLookup(links, filename).path
         IN  [q \in DOMAIN saved \cup {p} |->
                 IF q = p THEN [filename |-> filename, content |-> content] ELSE saved[q]]
    ELSE saved

ListFiles ==
    /\ pc = "server"
    /\ nops < MaxOps
    /\ \E order \in list_available_files(fs, symlinks) :
          /\ last' = [op |-> "list", filename |-> <<>>, content |-> <<>>,
                      result |-> ListContent(order)]
          /\ listed' = [known |-> TRUE, result |-> ListContent(order)]
    /\ nops' = nops + 1
    /\ UNCHANGED <<fs, symlinks, fs0, saved, index>>
    /\ UNCHANGED agentVars

ReadFile ==
    /\ pc = "server"
    /\ nops < MaxOps
    /\ \E filename \in Filenames :
          last' = [op |-> "read", filename |-> filename, content |-> <<>>,
                   result |-> TextContent(read_file_content(fs, symlinks, filename))]
    /\ nops' = nops + 1
    /\ UNCHANGED <<fs, symlinks, fs0, saved, listed, index>>
    /\ UNCHANGED agentVars

SaveFile ==
    /\ pc = "server"
    /\ nops < MaxOps
    /\ \E filename \in Filenames, content \in Texts(MaxLen) :
          LET r == save_document(fs, symlinks, filename, content)
          IN  /\ fs' = r.fs
              /\ saved' = SavedAfter(fs, symlinks, filename, content)
              /\ last' = [op |-> "save", filename |-> filename, content |-> content,
                          result |-> TextContent(r.text)]
              /\ listed' = IF CanWrite(symlinks, filename) THEN NoListing ELSE listed
    /\ nops' = nops + 1
    /\ UNCHANGED <<symlinks, fs0, index>>
    /\ UNCHANGED agentVars

IndexFile ==
    /\ pc = "server"
    /\ nops < MaxOps
    /\ \E filename \in Filenames :
          \E out \in index_document(fs, symlinks, index, filename) :
             /\ index' = out.index
             /\ last' = [op |-> "index", filename |-> filename, content |-> <<>>,
                         result |-> TextContent(out.text)]
    /\ nops' = nops + 1
    /\ UNCHANGED <<fs, symlinks, fs0, saved, listed>>
    /\ UNCHANGED agentVars

InitFS == InitWorld /\ InitAgent("server") /\ budget = NoBudget

NextFS == ListFiles \/ ReadFile \/ SaveFile \/ IndexFile

SpecFS == InitFS /\ [][NextFS]_vars

(***************************************************************************)
(* The server indexing the documents it finds in the directory: a.md with  *)
(* any content or absent, r.pdf present or absent.                         *)
(***************************************************************************)
IndexableFiles ==
    { [p \in {SecretPath} \cup {SandboxRoot \o <<n>> : n \in names} |->
          IF p = SecretPath THEN SecretText
          ELSE IF p = SandboxRoot \o <<"a.md">> THEN a ELSE <<"x">>] :
        a \in Texts(MaxLen), names \in SUBSET {"a.md", "r.pdf"} }

InitIndex ==
    /\ fs \in IndexableFiles
    /\ symlinks \in InitialLinks
    /\ fs0 = fs
    /\ saved = NoFiles
    /\ last = NoRequest
    /\ nops = 0
    /\ listed = NoListing
    /\ index = <<>>
    /\ InitAgent("server")
    /\ budget = NoBudget

NextIndex == IndexFile

SpecIndex == InitIndex /\ [][NextIndex]_vars


(***************************************************************************)
(* The agent process (src/legal_agent.py).                                 *)
(***************************************************************************)
Queries == {"q1"}

NoArgs == [k \in {} |-> <<>>]

SystemMessage ==
    [id |-> 0, role |-> "system", content |-> <<"system_instruction">>,
     tool_calls |-> <<>>, tool_call_id |-> 0, name |-> ""]

HumanMessage(q) ==
    [id |-> 0, role |-> "human", content |-> <<q>>,
     tool_calls |-> <<>>, tool_call_id |-> 0, name |-> ""]

ToolMessage(content, tool_call_id, name) ==
    [id |-> 0, role |-> "tool", content |-> content,
     tool_calls |-> <<>>, tool_call_id |-> tool_call_id, name |-> name]

AIMessage(id, calls) ==
    [id |-> id, role |-> "ai", content |-> IF calls = <<>> THEN <<"final answer">> ELSE <<>>,
     tool_calls |-> calls, tool_call_id |-> 0, name |-> ""]

(* add_messages: a message without id gets a fresh one; a message whose id *)
(* is already in the list replaces that entry; any other is appended.      *)
WithIds(right, first) ==
    [i \in 1..Len(right) |->
        IF right[i].id = 0 THEN [right[i] EXCEPT !.id = first + i - 1] ELSE right[i]]

RECURSIVE Merge(_, _)
Merge(left, right) ==
    IF right = <<>> THEN left
    ELSE LET m == Head(right)
         IN  IF \E i \in 1..Len(left) : left[i].id = m.id
             THEN Merge([i \in 1..Len(left) |-> IF left[i].id = m.id THEN m ELSE left[i]],
                        Tail(right))
             ELSE Merge(Append(left, m), Tail(right))

(* Mutant of add_messages: the channel has no reducer, an update           *)
(* overwrites the messages.                                                *)
OverwriteMessages(left, right, first) == WithIds(right, first)

add_messages(left, right, first) == Merge(left, WithIds(right, first))

(* The tool calls a provider response may carry.  search_tool is a name    *)
(* outside the bound tool list; read_file_tool without arguments is a      *)
(* malformed request.                                                      *)
CallChoices ==
    { [name |-> "list_files_tool", args |-> NoArgs],
      [name |-> "read_file_tool", args |-> [k \in {"filename"} |-> <<"a.md">>]],
      [name |-> "read_file_tool", args |-> NoArgs],
      [name |-> "save_file_tool",
       args |-> [k \in {"filename", "content"} |->
                    IF k = "filename" THEN <<"a.md">> ELSE <<"x">>]],
      [name |-> "search_tool", args |-> NoArgs] }

RepeatedCall == [name |-> "search_tool", args |-> NoArgs]

CallSeqs(n) == UNION {[1..k -> CallChoices] : k \in 0..n}

Min(a, b) == IF a < b THEN a ELSE b

(* What llm_with_tools.ainvoke may answer: a final answer (no tool calls), *)
(* any sequence of calls the budget of free calls still allows, or the     *)
(* repeated call while the budget of repeats allows.                       *)
ProviderResponses(b, used, repeated) ==
    CallSeqs(Min(MaxCalls, b.calls - used))
        \cup {<<>>}
        \cup (IF repeated < b.repeats THEN {<<RepeatedCall>>} ELSE {})

(* The response is charged to the budget of repeats.                       *)
IsRepeat(choice, b, repeated) == choice = <<RepeatedCall>> /\ repeated < b.repeats

(* The calls of a response charged to the budget of free calls.            *)
FreeCalls(choice, b, repeated) ==
    IF IsRepeat(choice, b, repeated) THEN 0 ELSE Len(choice)

UnknownToolText == <<"Erro: Ferramenta desconhecida.">>

Raised(f) == [raised |-> TRUE, text |-> <<>>, fs |-> f, requests |-> 0]

Returned(text, f, n) == [raised |-> FALSE, text |-> text, fs |-> f, requests |-> n]

(* list_files_tool: result.content[0].text; an empty content list raises.  *)
list_files_tool(f, links) ==
    { LET content == ListContent(order)
      IN  IF Len(content) = 0
          THEN [raised |-> TRUE, text |-> <<>>, fs |-> f, requests |-> 1]
          ELSE Returned(content[1], f, 1) : order \in list_available_files(f, links) }

(* read_file_tool: the argument schema demands filename.                   *)
read_file_tool(args, f, links) ==
    IF "filename" \notin DOMAIN args THEN {Raised(f)}
    ELSE {Returned(TextContent(read_file_content(f, links, args["filename"]))[1], f, 1)}

(* save_file_tool: the argument schema demands filename and content.       *)
save_file_tool(args, f, links) ==
    IF {"filename", "content"} \subseteq DOMAIN args
    THEN LET r == save_document(f, links, args["filename"], args["content"])
         IN  {Returned(TextContent(r.text)[1], r.fs, 1)}
    ELSE {Raised(f)}

(* The branch of tools_node for one tool call.                             *)
Dispatch(call, f, links) ==
    IF call.name = "list_files_tool" THEN list_files_tool(f, links)
    ELSE IF call.name = "read_file_tool" THEN read_file_tool(call.args, f, links)
    ELSE IF call.name = "save_file_tool" THEN save_file_tool(call.args, f, links)
    ELSE {Returned(UnknownToolText, f, 0)}

(* Mutant of should_continue: the edge to tools is taken always.           *)
should_continue_always(msgs) == "tools"

should_continue(msgs) == IF Last(msgs).tool_calls # <<>> THEN "tools" ELSE "END"

(* Mutant of ToolsUpdate: the last output is lost.                         *)
ToolsUpdateDropsLast(outs) == Front(outs)

(* Mutant of ToolsUpdate: the outputs are returned last first.             *)
ToolsUpdateReversed(outs) == [i \in 1..Len(outs) |-> outs[Len(outs) + 1 - i]]

(* What tools_node returns: the outputs, in the order they were built.     *)
ToolsUpdate(outs) == outs

(* Mutant of RaisedUpdate: the outputs built before the exception are      *)
(* returned all the same.                                                  *)
RaisedUpdateKeeps(outs) == outs

(* What tools_node adds to the messages when a tool raises: the exception  *)
(* leaves the function before its return, the outputs built are dropped.   *)
RaisedUpdate(outs) == <<>>

(* The external calls of the loop: llm_with_tools.ainvoke and the ainvoke  *)
(* of a tool for one tool call.                                            *)
ProviderCall == [kind |-> "provider", id |-> 0]

ToolCall(call) == [kind |-> "tool", id |-> call.id]

(* The dispatch of the call reaches session.call_tool: the name is one of  *)
(* the three tools and the arguments pass the tool's schema.  Any other    *)
(* call is answered (or raises) inside the agent process.                  *)
IssuesRequest(call) ==
    \/ call.name = "list_files_tool"
    \/ call.name = "read_file_tool" /\ "filename" \in DOMAIN call.args
    \/ call.name = "save_file_tool" /\ {"filename", "content"} \subseteq DOMAIN call.args

(* The external call tools_node issues for a tool call.                    *)
Issued(call) ==
    IF IssuesRequest(call) THEN {ToolCall(call)} ELSE {}

(* Mutant of Awaited: the call of the tool is started and not awaited.     *)
NotAwaited(call) == {}

(* res = await tool.ainvoke(...): the call tools_node has waited for when  *)
(* it goes on to the next tool call or returns.                            *)
Awaited(call) == {ToolCall(call)}

(* Mutant of TurnInput: the user query is sent twice.                      *)
TurnInputTwice(q) == <<SystemMessage, HumanMessage(q), HumanMessage(q)>>

(* The input of app.ainvoke: the system instruction and the user query.    *)
TurnInput(q) == <<SystemMessage, HumanMessage(q)>>

(* app.ainvoke: the checkpoint of the thread is loaded and the input       *)
(* (system instruction, user query) is added to it.                        *)
Advance ==
    /\ pc = "prompt"
    /\ turns < MaxTurns
    /\ \E q \in Queries :
          LET new == add_messages(memory, TurnInput(q), nextId)
          IN  /\ messages' = new
              /\ memory' = new
              /\ nextId' = nextId + Len(TurnInput(q))
    /\ prior' = Len(memory)
    /\ pc' = "agent"
    /\ outputs' = <<>>
    /\ idx' = 0
    /\ turns' = turns + 1
    /\ round' = 0
    /\ dispatched' = 0
    /\ requests' = 0
    /\ failure' = "none"
    /\ inflight' = inflight \cup {ProviderCall}
    /\ UNCHANGED <<archive, free, reps, budget, reply, fsVars>>

(* agent_node, the checkpoint after it, and should_continue.               *)
AgentStep ==
    /\ pc = "agent"
    /\ \E choice \in ProviderResponses(budget, free, reps) :
          LET calls == [i \in 1..Len(choice) |->
                           [id |-> nextId + i, name |-> choice[i].name,
                            args |-> choice[i].args]]
              new == add_messages(messages, <<AIMessage(nextId, calls)>>, nextId)
          IN  /\ messages' = new
              /\ memory' = new
              /\ nextId' = nextId + 1 + Len(choice)
              /\ free' = free + FreeCalls(choice, budget, reps)
              /\ reps' = reps + (IF IsRepeat(choice, budget, reps) THEN 1 ELSE 0)
              /\ IF should_continue(new) = "tools"
                 THEN /\ pc' = "tools" /\ idx' = 1 /\ archive' = archive
                      /\ inflight' = (inflight \ {ProviderCall})
                                        \cup UNION {Issued(calls[i]) :
                                                       i \in {1} \cap DOMAIN calls}
                 ELSE /\ pc' = "prompt" /\ idx' = 0 /\ archive' = new
                      /\ inflight' = inflight \ {ProviderCall}
    /\ round' = round + 1
    /\ outputs' = <<>>
    /\ UNCHANGED <<turns, dispatched, requests, failure, prior, budget, reply, fsVars>>

(* The server process serves the request of tool call idx while           *)
(* tools_node waits in await session.call_tool(...): a save writes its     *)
(* file here.  The answer (or the exception the tool will raise on it)     *)
(* waits for tools_node to resume.                                         *)
CallTool ==
    /\ pc = "tools"
    /\ idx \in DOMAIN Last(messages).tool_calls
    /\ IssuesRequest(Last(messages).tool_calls[idx])
    /\ ~reply.ready
    /\ \E out \in Dispatch(Last(messages).tool_calls[idx], fs, symlinks) :
          /\ fs' = out.fs
          /\ requests' = requests + out.requests
          /\ reply' = [ready |-> TRUE, raised |-> out.raised, text |-> out.text]
    /\ UNCHANGED <<symlinks, fs0, saved, last, nops, listed, index, pc, memory, messages,
                   outputs, idx, nextId, turns, round, dispatched, failure,
                   archive, free, reps, budget, prior, inflight>>

(* tools_node from one await to the next: it resumes with the answer to    *)
(* tool call idx (or handles a call that issues no request) and builds the *)
(* tool message; after the last call the outputs are added to the messages *)
(* and checkpointed.  An exception of the tool leaves tools_node, the      *)
(* graph and asyncio.run.                                                  *)
ToolsStep ==
    /\ pc = "tools"
    /\ LET calls == Last(messages).tool_calls
       IN  IF idx > Len(calls)
           THEN /\ messages' = add_messages(messages, ToolsUpdate(outputs), nextId)
                /\ memory' = messages'
                /\ nextId' = nextId + Len(outputs)
                /\ pc' = "agent"
                /\ idx' = 0
                /\ outputs' = <<>>
                /\ inflight' = inflight \cup {ProviderCall}
                /\ UNCHANGED <<dispatched, failure>>
           ELSE /\ IssuesRequest(calls[idx]) => reply.ready
                /\ \E out \in (IF IssuesRequest(calls[idx]) THEN {reply}
                               ELSE Dispatch(calls[idx], fs, symlinks)) :
                      /\ dispatched' = dispatched + 1
                      /\ IF out.raised
                         THEN /\ pc' = "dead"
                              /\ failure' = "tool"
                              /\ inflight' = {}
                              /\ messages' = add_messages(messages, RaisedUpdate(outputs),
                                                          nextId)
                              /\ nextId' = nextId + Len(RaisedUpdate(outputs))
                              /\ UNCHANGED <<memory, idx, outputs>>
                         ELSE LET outs == Append(outputs,
                                            ToolMessage(out.text, calls[idx].id,
                                                        calls[idx].name))
                              IN  IF idx = Len(calls)
                                  THEN /\ messages' = add_messages(messages,
                                                                   ToolsUpdate(outs), nextId)
                                       /\ memory' = messages'
                                       /\ nextId' = nextId + Len(outs)
                                       /\ pc' = "agent"
                                       /\ idx' = 0
                                       /\ outputs' = <<>>
                                       /\ failure' = failure
                                       /\ inflight' = (inflight \ Awaited(calls[idx]))
                                                         \cup {ProviderCall}
                                  ELSE /\ idx' = idx + 1
                                       /\ outputs' = outs
                                       /\ inflight' = (inflight \ Awaited(calls[idx]))
                                                         \cup Issued(calls[idx + 1])
                                       /\ UNCHANGED <<messages, memory, nextId, pc,
                                                      failure>>
    /\ reply' = NoReply
    /\ UNCHANGED <<fs, symlinks, fs0, saved, last, nops, listed, index, requests, turns,
                   round, archive, free, reps, budget, prior>>

(* llm_with_tools.ainvoke raises (network or provider error).              *)
ProviderError ==
    /\ pc = "agent"
    /\ pc' = "dead"
    /\ failure' = "provider"
    /\ inflight' = {}
    /\ reply' = NoReply
    /\ UNCHANGED <<memory, messages, outputs, idx, nextId, turns, round,
                   dispatched, requests, archive, free, reps, budget, prior, fsVars>>

(* The process is killed while a turn is running.                          *)
Crash ==
    /\ pc \in {"agent", "tools"}
    /\ pc' = "dead"
    /\ failure' = "crash"
    /\ inflight' = {}
    /\ reply' = NoReply
    /\ UNCHANGED <<memory, messages, outputs, idx, nextId, turns, round,
                   dispatched, requests, archive, free, reps, budget, prior, fsVars>>

(* "sair" at the prompt ends the process.                                  *)
Exit ==
    /\ pc = "prompt"
    /\ pc' = "dead"
    /\ inflight' = {}
    /\ reply' = NoReply
    /\ UNCHANGED <<memory, messages, outputs, idx, nextId, turns, round,
                   dispatched, requests, failure, archive, free, reps, budget, prior,
                   fsVars>>

(* The program is started again: memory = MemorySaver() is a new, empty    *)
(* saver; the files on disk are the ones the earlier process left.         *)
Restart ==
    /\ pc = "dead"
    /\ turns < MaxTurns
    /\ pc' = "prompt"
    /\ memory' = <<>>
    /\ messages' = <<>>
    /\ outputs' = <<>>
    /\ idx' = 0
    /\ round' = 0
    /\ dispatched' = 0
    /\ requests' = 0
    /\ failure' = "none"
    /\ prior' = 0
    /\ inflight' = {}
    /\ reply' = NoReply
    /\ UNCHANGED <<nextId, turns, archive, free, reps, budget, fsVars>>

Init == InitWorld /\ symlinks = NoFiles /\ InitAgent("prompt") /\ budget \in Budgets

Next ==
    \/ Advance
    \/ AgentStep
    \/ CallTool
    \/ ToolsStep
    \/ ProviderError
    \/ Crash
    \/ Exit
    \/ Restart

Spec == Init /\ [][Next]_vars

(***************************************************************************)
(* Claims about the capability server (checked under SpecFS).              *)
(***************************************************************************)
IsDescendant(path) ==
    /\ Len(path) > Len(SandboxRoot)
    /\ SubSeq(path, 1, Len(SandboxRoot)) = SandboxRoot

IsDirectChild(path) == Len(path) = Len(SandboxRoot) + 1 /\ Front(path) = SandboxRoot

SandboxViolationText == <<"SandboxViolation">>

(* C4: a read_file request whose resolved path is not a descendant of the  *)
(* sandbox root is answered with a SandboxViolation error, and the answer  *)
(* is never the text of the file outside the sandbox.                      *)
C4_ReadRejectsEscape ==
    (last.op = "read" /\ ~IsDescendant(ReadPath(symlinks, last.filename)))
        => /\ last.result = TextContent(SandboxViolationText)
           /\ ReadPath(symlinks, last.filename) \in DOMAIN fs
                 => last.result # TextContent(DecodeText(fs[ReadPath(symlinks, last.filename)]))

(* C5: after any sequence of save_file requests the files outside the      *)
(* sandbox root are the ones present at the start, with their contents,    *)
(* and every file written is a direct child of the sandbox root.           *)
C5_SaveConfined ==
    /\ \A p \in DOMAIN fs \cup DOMAIN fs0 :
          ~IsDirectChild(p) => (p \in DOMAIN fs /\ p \in DOMAIN fs0 /\ fs[p] = fs0[p])
    /\ \A p \in DOMAIN saved : IsDirectChild(p)

(* C10: read_file("a.md") after save_file("a.md", content), with no other  *)
(* write to that file in between, returns exactly the content of the last  *)
(* save.                                                                   *)
C10_RoundTrip ==
    LET p == SandboxRoot \o <<"a.md">>
    IN  (/\ last.op = "read"
         /\ last.filename = <<"a.md">>
         /\ p \in DOMAIN saved
         /\ saved[p].filename = <<"a.md">>)
            => last.result = TextContent(saved[p].content)


(***************************************************************************)
(* Claims about the agent loop (checked under Spec).                       *)
(***************************************************************************)
ToolNames == {"list_files_tool", "read_file_tool", "save_file_tool"}

Indexes(msgs, role) == {i \in 1..Len(msgs) : msgs[i].role = role}

(* The tool-result messages of msgs that answer the call id.               *)
Answers(msgs, id) == {j \in Indexes(msgs, "tool") : msgs[j].tool_call_id = id}

(* The tool calls of msgs, as <<message index, call index>>.               *)
CallsOf(msgs) ==
    UNION { {<<i, k>> : k \in 1..Len(msgs[i].tool_calls)} : i \in Indexes(msgs, "ai") }

AllAnsweredOnce(msgs) ==
    \A c \in CallsOf(msgs) :
        Cardinality(Answers(msgs, msgs[c[1]].tool_calls[c[2]].id)) = 1

IsPrefix(a, b) == Len(a) <= Len(b) /\ SubSeq(b, 1, Len(a)) = a

(* C1: whenever the provider is about to be called, every tool call of     *)
(* every assistant message of the thread has exactly one tool-result       *)
(* message with its call id.                                               *)
C1_CallsAnsweredOnce == pc = "agent" => AllAnsweredOnce(messages)

(* C1 witness: a provider call in a second turn of the thread, after a     *)
(* tool round of this turn, with an assistant message of two calls in the  *)
(* history.                                                                *)
C1_Witness ==
    /\ pc = "agent"
    /\ round >= 1
    /\ prior > 0
    /\ \E i \in Indexes(messages, "ai") : Len(messages[i].tool_calls) >= 2

(* C2: when the process dies during a turn, after the provider call or     *)
(* later, the saver holds the thread as of the end of the last completed   *)
(* turn, and no assistant message with a tool call lacking its result.     *)
C2_CrashKeepsLastTurn ==
    (pc = "dead" /\ failure # "none" /\ round >= 1)
        => (memory = archive /\ AllAnsweredOnce(memory))

(* C3: the first provider call of a turn receives every message of the     *)
(* turns completed earlier, also those completed by an earlier process.    *)
C3_HistorySurvivesRestart ==
    (pc = "agent" /\ round = 0) => IsPrefix(archive, messages)

(* C6: the dispatch of a tool call never ends the turn: it leaves the loop *)
(* in tools_node or back at the provider call, with a tool-result message  *)
(* carrying the call id built.                                             *)
C6_FailedCallIsRecorded ==
    [][ (pc = "tools" /\ dispatched' = dispatched + 1)
          => /\ pc' \in {"tools", "agent"}
             /\ \/ \E j \in 1..Len(outputs') :
                      outputs'[j].tool_call_id = Last(messages).tool_calls[idx].id
                \/ Answers(messages', Last(messages).tool_calls[idx].id) # {} ]_vars

(* C7: when the last assistant message names a tool outside the declared   *)
(* set, dispatching that call issues no capability request, the dispatch   *)
(* of the message's calls goes on to the next provider call, and there the *)
(* thread holds exactly one tool-result for the call, the error text.      *)
C7_UnknownToolReported ==
    [][ (/\ pc = "tools"
         /\ dispatched' = dispatched + 1
         /\ \E k \in 1..Len(Last(messages).tool_calls) :
               Last(messages).tool_calls[k].name \notin ToolNames)
          => /\ Last(messages).tool_calls[idx].name \notin ToolNames
                   => requests' = requests
             /\ pc' \in {"tools", "agent"}
             /\ pc' = "agent"
                   => \A k \in 1..Len(Last(messages).tool_calls) :
                         Last(messages).tool_calls[k].name \notin ToolNames
                            => /\ Cardinality(Answers(messages',
                                      Last(messages).tool_calls[k].id)) = 1
                               /\ \A j \in Answers(messages', Last(messages).tool_calls[k].id) :
                                      messages'[j].content = UnknownToolText ]_vars

(* C8: on a thread without history, a first provider response without tool *)
(* calls ends the turn: the thread holds one user message and one          *)
(* assistant message, the last one, and the turn made one provider call    *)
(* and no dispatch.                                                        *)
C8_FreshThreadFinalAnswer ==
    [][ (/\ pc = "agent"
         /\ prior = 0
         /\ round = 0
         /\ round' = 1
         /\ Last(messages').tool_calls = <<>>)
          => /\ pc' = "prompt"
             /\ Cardinality(Indexes(messages', "human")) = 1
             /\ Cardinality(Indexes(messages', "ai")) = 1
             /\ Last(messages').role = "ai"
             /\ dispatched' = 0
             /\ requests' = 0 ]_vars

(* C8 witness: the first turn of a thread has ended after one provider     *)
(* call.                                                                   *)
C8_Witness ==
    /\ pc = "prompt"
    /\ prior = 0
    /\ round = 1
    /\ failure = "none"
    /\ Len(messages) = 3
    /\ dispatched = 0

(* The per-turn cap on provider calls the claim speaks of, set to a        *)
(* number of tool-call answers the providers of the model give in a row.   *)
TurnCap == MaxRepeats

(* C9: a turn makes at most TurnCap provider calls: when TurnCap calls     *)
(* have been answered with tool calls and the loop is back at the provider *)
(* call, the turn ends in a failure and no further provider call is made.  *)
C9_TurnEndsAtCap ==
    [][ (pc = "agent" /\ round >= TurnCap)
            => /\ round' = round
               /\ pc' = "dead"
               /\ failure' # "none" ]_vars


(***************************************************************************)
(* Claims about the listing (checked under SpecFS).                        *)
(***************************************************************************)
(* The place of a file name in the order of sorted().                      *)
NameRank(n) ==
    CASE n = "a.md" -> 1
      [] n = "link" -> 2
      [] n = "missing.txt" -> 3
      [] n = "out.md" -> 4
      [] n = "r.pdf" -> 5
      [] n = "secret.txt" -> 6
      [] n = "x.md" -> 7

(* The content items of a listing hold the names in sorted order.          *)
IsSortedListing(content) ==
    \A i, j \in 1..Len(content) :
        i < j => NameRank(content[i][1]) < NameRank(content[j][1])

NoFilesText == <<"Nenhum arquivo">>

(* C11: the answer to a list request holds the names in sorted order, and  *)
(* it is the answer the previous list request got when no write came in    *)
(* between.                                                                *)
C11_ListingSortedAndStable ==
    [][ (last'.op = "list" /\ nops' = nops + 1)
          => /\ IsSortedListing(last'.result)
             /\ listed.known => last'.result = listed.result ]_vars

(* C12: the answer to a list request on a sandbox without files has a      *)
(* first content item, the text "Nenhum arquivo".                          *)
C12_EmptySandboxSignal ==
    (last.op = "list" /\ ListedNames(fs, symlinks) = {})
        => (Len(last.result) >= 1 /\ last.result[1] = NoFilesText)


(***************************************************************************)
(* Claims about the dispatch of tool calls (checked under Spec).           *)
(***************************************************************************)
(* The filename names neither a file nor a directory.                      *)
IsMissing(f, links, filename) ==
    LET path == Realpath(links, <<>>, JoinPath(SandboxRoot, filename))
    IN  path \notin DOMAIN f /\ path \notin Dirs

(* C13: for a read_file call whose filename does not exist, the server     *)
(* answers with the text "Arquivo nao encontrado." and leaves the files as *)
(* they are; tools_node then raises nothing and builds the tool message of *)
(* the call with that text, and the dispatch of the assistant message goes *)
(* on.                                                                     *)
C13_MissingFileIsReported ==
    [][ (/\ pc = "tools"
         /\ idx \in DOMAIN Last(messages).tool_calls
         /\ Last(messages).tool_calls[idx].name = "read_file_tool"
         /\ "filename" \in DOMAIN Last(messages).tool_calls[idx].args
         /\ IsMissing(fs, symlinks, Last(messages).tool_calls[idx].args["filename"]))
          => /\ (~reply.ready /\ reply'.ready)
                   => /\ fs' = fs
                      /\ ~reply'.raised
                      /\ reply'.text = NotFoundText
             /\ dispatched' = dispatched + 1
                   => /\ fs' = fs
                      /\ pc' \in {"tools", "agent"}
                      /\ \/ \E j \in 1..Len(outputs') :
                               /\ outputs'[j].tool_call_id
                                     = Last(messages).tool_calls[idx].id
                               /\ outputs'[j].content = NotFoundText
                         \/ \E j \in Answers(messages',
                                             Last(messages).tool_calls[idx].id) :
                               messages'[j].content = NotFoundText ]_vars

(* The provider is called next with the "not found" text in the thread.    *)
C13_Witness ==
    /\ pc = "agent"
    /\ \E j \in Indexes(messages, "tool") :
          messages[j].name = "read_file_tool" /\ messages[j].content = NotFoundText


(* Call l of the assistant message reads the file call k saved, and no     *)
(* call between them saves.                                                *)
ReadsWhatWasSaved(calls, k, l) ==
    /\ k < l
    /\ calls[k].name = "save_file_tool"
    /\ {"filename", "content"} \subseteq DOMAIN calls[k].args
    /\ calls[l].name = "read_file_tool"
    /\ "filename" \in DOMAIN calls[l].args
    /\ calls[l].args["filename"] = calls[k].args["filename"]
    /\ \A m \in (k + 1)..(l - 1) : calls[m].name # "save_file_tool"

(* C14: the calls of an assistant message are dispatched one at a time in  *)
(* the order of the message (while call idx is due, the outputs are those  *)
(* of the calls before it, in order), the thread holds the tool messages   *)
(* of an answered assistant message right after it in the order of its     *)
(* calls, and a read that follows a save of the same file in one message   *)
(* returns the saved text.                                                 *)
C14_DispatchInOrder ==
    /\ pc = "tools"
          => /\ Len(outputs) = idx - 1
             /\ \A k \in 1..Len(outputs) :
                   outputs[k].tool_call_id = Last(messages).tool_calls[k].id
    /\ \A i \in Indexes(messages, "ai") :
          LET calls == messages[i].tool_calls
          IN  (Len(calls) >= 2 /\ i < Len(messages))
                 => /\ Len(messages) >= i + Len(calls)
                    /\ \A k \in 1..Len(calls) :
                          /\ messages[i + k].role = "tool"
                          /\ messages[i + k].tool_call_id = calls[k].id
                          /\ messages[i + k].name = calls[k].name
                    /\ \A k, l \in 1..Len(calls) :
                          (ReadsWhatWasSaved(calls, k, l)
                             /\ messages[i + k].content = SavedText)
                             => messages[i + l].content
                                   = DecodeText(EncodeText(calls[k].args["content"]))

(* On a sandbox that had no a.md, one assistant message saved it and then  *)
(* read it, and the read returned the saved text.                          *)
C14_Witness ==
    /\ <<"w", "dados_processos", "a.md">> \notin DOMAIN fs0
    /\ \E i \in Indexes(messages, "ai") :
          /\ Len(messages[i].tool_calls) >= 2
          /\ i + 2 <= Len(messages)
          /\ ReadsWhatWasSaved(messages[i].tool_calls, 1, 2)
          /\ messages[i + 1].content = SavedText
          /\ messages[i + 2].content = <<"x">>


(***************************************************************************)
(* Claims about the turn and the thread (checked under Spec).              *)
(* AWAITING_MODEL is pc = "agent", DISPATCHING_TOOLS is pc = "tools" and   *)
(* DONE is pc = "prompt" after a turn.                                     *)
(***************************************************************************)
(* C15: a turn starts awaiting the model; a provider response leads to the *)
(* dispatch of tools exactly when it has tool calls and ends the turn      *)
(* otherwise; the dispatch of tools always leads back to awaiting the      *)
(* model (a kill of the process aside); a                                  *)
(* turn that ended changes the thread no more, and its last message is an  *)
(* assistant message without tool calls.                                   *)
C15_TurnStateMachine ==
    [][ /\ (pc = "prompt" /\ turns' = turns + 1) => pc' = "agent"
        /\ (pc = "agent" /\ round' = round + 1)
              => /\ pc' = "tools" <=> Last(messages').tool_calls # <<>>
                 /\ pc' = "prompt" <=> Last(messages').tool_calls = <<>>
        /\ (pc = "tools" /\ failure' # "crash")
              => pc' \in {"tools", "agent"}
        /\ (pc = "agent" /\ pc' = "prompt")
              => /\ Last(messages').role = "ai"
                 /\ Last(messages').tool_calls = <<>>
        /\ pc = "prompt"
              => \/ pc' = "agent"
                 \/ pc' \in {"prompt", "dead"} /\ messages' = messages ]_vars


(* C16: while the process runs, every step of a turn and every new turn    *)
(* leaves the messages the thread held where they were and as they were:   *)
(* the thread before the step is a prefix of the thread after it, in the   *)
(* state of the graph and in the checkpoint.                               *)
C16_ThreadAppendOnly ==
    [][ pc # "dead"
          => /\ IsPrefix(messages, messages')
             /\ IsPrefix(memory, memory') ]_vars

(* A later turn of the same process has added to the thread of an earlier  *)
(* one, tool messages included.                                            *)
C16_Witness ==
    /\ prior > 0
    /\ Len(messages) > prior + 2
    /\ IsPrefix(archive, messages)
    /\ Indexes(messages, "tool") # {}


(* C17: a new turn appends the system instruction and the user input, the  *)
(* input once; no other step adds a user or system message; no step        *)
(* appends a message that is in the thread already (the id of an appended  *)
(* message, and the call id an appended tool message answers, is new); and *)
(* an appended system message has the content of the fixed instruction.    *)
C17_InputsAppendedOnce ==
    [][ pc # "dead"
          => LET old == 1..Len(messages)
                 new == (Len(messages) + 1)..Len(messages')
             IN  /\ (pc = "prompt" /\ turns' = turns + 1)
                       => /\ Len(messages') = Len(messages) + 2
                          /\ messages'[Len(messages) + 1].role = "system"
                          /\ messages'[Len(messages) + 1].content = SystemMessage.content
                          /\ messages'[Len(messages) + 2].role = "human"
                          /\ \E q \in Queries :
                                messages'[Len(messages) + 2].content
                                    = HumanMessage(q).content
                 /\ ~(pc = "prompt" /\ turns' = turns + 1)
                       => \A i \in new : messages'[i].role \in {"ai", "tool"}
                 /\ \A i \in new :
                       \A j \in (old \cup new) \ {i} :
                          /\ messages'[i].id # messages'[j].id
                          /\ (messages'[i].role = "tool" /\ messages'[j].role = "tool")
                                => messages'[i].tool_call_id # messages'[j].tool_call_id
                 /\ \A i \in old : messages'[i] = messages[i] ]_vars

(* After two turns of one process the thread holds the two user inputs and *)
(* the system instruction twice.                                           *)
C17_Witness ==
    /\ pc = "prompt"
    /\ prior > 0
    /\ Cardinality(Indexes(messages, "human")) = 2
    /\ Cardinality(Indexes(messages, "system")) = 2
    /\ Cardinality(Indexes(messages, "ai")) >= 2


(* C18: in every state at most one external call is outstanding (so never *)
(* two provider calls, two tool dispatches, or a provider call and a tool  *)
(* dispatch), and none is while the program waits at the prompt.           *)
C18_OneOutstandingCall ==
    /\ Cardinality(inflight) <= 1
    /\ pc = "prompt" => inflight = {}

(* In a second turn of one process the second tool call of an assistant    *)
(* message is the one outstanding call.                                    *)
C18_Witness ==
    /\ prior > 0
    /\ pc = "tools"
    /\ idx = 2
    /\ inflight = {ToolCall(Last(messages).tool_calls[2])}


(***************************************************************************)
(* Claims about the index (checked under SpecIndex).                       *)
(***************************************************************************)
(* The result of an index request reports success.                         *)
IsIndexed(result) == Len(result) = 1 /\ result[1][1] = "Sucesso: Arquivo '"

(* C19: an index request for a file that yields no text is answered with   *)
(* the "no text" message and adds no chunk; one for a missing file adds no *)
(* chunk; a request answered with success appended chunks that all carry   *)
(* the filename as source, as many as the answer reports; any other answer *)
(* leaves the index as it was.                                             *)
C19_IndexResult ==
    [][ (last'.op = "index" /\ nops' = nops + 1)
          => LET name == last'.filename
                 added == SubSeq(index', Len(index) + 1, Len(index'))
             IN  /\ IsPrefix(index, index')
                 /\ IsMissing(fs, symlinks, name) => index' = index
                 /\ (/\ ~IsMissing(fs, symlinks, name)
                     /\ extract_text_raw(fs, ReadPath(symlinks, name)) = <<>>)
                       => /\ index' = index
                          /\ last'.result = TextContent(EmptyDocumentText)
                 /\ IsIndexed(last'.result)
                       => /\ \A i \in 1..Len(added) : added[i].metadata.source = name
                          /\ last'.result = TextContent(IndexedText(name, Len(added)))
                 /\ ~IsIndexed(last'.result) => index' = index ]_vars

(* A file was indexed: its chunk is the last of the index, and an earlier  *)
(* request for a file without text has added nothing.                      *)
C19_Witness ==
    /\ last.op = "index"
    /\ IsIndexed(last.result)
    /\ Len(index) = 1
    /\ index[1].metadata.source = last.filename
    /\ nops >= 2


(***************************************************************************)
(* Claims about a raising tool call (checked under Spec).                  *)
(***************************************************************************)
(* C20: while the calls of an assistant message are dispatched, and after  *)
(* one of them raised, the thread ends with that assistant message and     *)
(* holds no tool message for any of its calls, in the state of the graph   *)
(* and in the checkpoint.                                                  *)
C20_BatchAllOrNothing ==
    (pc = "tools" \/ (pc = "dead" /\ failure = "tool"))
        => /\ Last(messages).role = "ai"
           /\ memory = messages
           /\ \A k \in 1..Len(Last(messages).tool_calls) :
                 Answers(messages, Last(messages).tool_calls[k].id) = {}

(* The second call of an assistant message raised after the first, a save, *)
(* had written its file and built its tool message.                        *)
C20_Witness ==
    /\ pc = "dead"
    /\ failure = "tool"
    /\ idx = 2
    /\ Len(outputs) = 1
    /\ Last(messages).tool_calls[1].name = "save_file_tool"
    /\ outputs[1].content = SavedText
    /\ SandboxRoot \o <<"a.md">> \in DOMAIN fs
    /\ Answers(messages, Last(messages).tool_calls[1].id) = {}

====
